---------------------------- MODULE Spec2Model ----------------------------
(***************************************************************************)
(* LewisAI-Tearing: the keyframe extractor (VideoProcessor), the App that  *)
(* owns the keyframe list, the 'Ink Sketch' worker pool and the storyboard *)
(* compositor, as a state machine.                                         *)
(*                                                                         *)
(* Times are in hundredths of a second (the sampler only ever holds        *)
(* multiples of 0.5 s, which binary floating point represents exactly).    *)
(* A low-resolution sample is an RGBA byte sequence.                       *)
(***************************************************************************)
EXTENDS Integers, Sequences, FiniteSets, TLC

(***************************************************************************)
(* Bounds of the model.                                                    *)
(***************************************************************************)
\* Uploads (files chosen in the file input) over one behaviour.
MaxUploads == 1
\* Longest keyframe list handed to the storyboard compositor.
MaxFrames == 13
\* Source durations are the multiples of 0.25 s up to MaxDurationQ quarters.
MaxDurationQ == 5
\* Uploads over one behaviour of the pool specifications.
MaxPoolUploads == 2
\* Longest keyframe list an extraction delivers in PoolSpec.
MaxKeyframes == 3
\* Longest keyframe list of QueueSpec (one more than a pool has workers).
MaxQueue == 6
\* Longest buffer, in pixels, handed to calculateFrameDifference in ImageSpec.
MaxPixels == 5
\* Largest width and height of a raster in ImageSpec.
MaxSide == 3
\* Largest blur radius of a boxBlur call in ImageSpec.
MaxRadius == 4
\* Longest caption, in characters, handed to wrapText in LayoutSpec.
MaxChars == 8
\* Image widths and heights of LayoutSpec: 1..MaxDim and the box's own.
MaxDim == 16
\* Longest keyframe list and longest caption of a table export in LayoutSpec.
MaxRows == 2
MaxCaptionLen == 2

(***************************************************************************)
(* Program constants.                                                      *)
(***************************************************************************)
\* const sampleRate = 0.5  (seconds; here in hundredths)
sampleRate == 50
\* const threshold = 15
threshold == 15
\* const processWidth = 640, scaled to a one-row raster of 4 pixels: like
\* 640 * h it is a multiple of 4, so the metric's stride visits exactly one
\* pixel in four and a uniform change gives the same value as at 640.
processWidth == 4
\* const concurrency = 3 (handleConvertToSketch)
sketchConcurrency == 3
\* const concurrency = 5 (processCaptionsQueue)
captionConcurrency == 5
\* const framesPerPage = 12
framesPerPage == 12
\* const cols = 4
cols == 4

\* Gray levels the source can show.  3 * 20 / 4 = 15 exactly, 3 * 21 / 4 is
\* above the threshold, 3 * 1 / 4 is far below it.
Levels == {0, 20, 21}
Durations == {25 * q : q \in 1..MaxDurationQ}
\* Outcomes of one generateSketch call that returns an image.
SketchVariants == {1, 2}

\* let lastFrameData: Uint8ClampedArray | null = null
NoFrame == <<>>
\* A text is the sequence of its characters.  caption undefined, or '': the
\* code only ever tests a caption for truthiness.
NoCaption == <<>>
NoFile == 0

VARIABLES
    appState,        \* App: AppState
    videoFile,       \* App: the uploaded File (its number) or NoFile
    frames,          \* App: Keyframe[]
    progress,        \* App: progress, a fraction <<numerator, denominator>>
    isConverting,    \* App: 'Ink Sketch' busy flag
    processor,       \* the mounted VideoProcessor (exists while ANALYZING)
    runs,            \* the extraction runs started so far (startProcessing closures)
    uploads,         \* number of files chosen so far
    framesToProcess, \* handleConvertToSketch: the shared queue
    sketchWorkers,   \* handleConvertToSketch: the three workers
    saved,           \* what handleDownloadStoryboard last handed to saveAs
    captionsProcessing, \* App: caption pool busy flag
    captionPools,    \* the processCaptionsQueue calls that have not returned
    call             \* utils/imageProcessing: the call under way, its arguments, its result

vars == <<appState, videoFile, frames, progress, isConverting, processor,
          runs, uploads, framesToProcess, sketchWorkers, saved,
          captionsProcessing, captionPools, call>>

(***************************************************************************)
(* Numbers.                                                                *)
(***************************************************************************)
Abs(x) == IF x < 0 THEN -x ELSE x
Min(a, b) == IF a < b THEN a ELSE b

RECURSIVE Gcd(_, _)
Gcd(a, b) == IF b = 0 THEN a ELSE Gcd(b, a % b)

\* A JavaScript number that is a quotient of integers, kept exact and in
\* lowest terms; den = 0 stands for NaN (0 / 0).
Quot(n, d) ==
    IF d = 0 THEN [num |-> 0, den |-> 0]
    ELSE LET g == Gcd(Abs(n), d) IN [num |-> n \div g, den |-> d \div g]

\* q > k for an integer k; every comparison with NaN is false.
QuotGt(q, k) == q.den > 0 /\ q.num > k * q.den

(***************************************************************************)
(* calculateFrameDifference (utils/imageProcessing).                       *)
(* for (i = 0; i < data1.length; i += 4 * 4): the bytes i, i+1, i+2 of     *)
(* every fourth pixel; the sum is divided by data1.length / 4.  The        *)
(* quotient of two integers below 2^53 compares with 15 in floating point  *)
(* exactly as it does here.                                                *)
(***************************************************************************)
RECURSIVE SumFrom(_, _, _)
SumFrom(data1, data2, i) ==
    IF i >= Len(data1) THEN 0
    ELSE Abs(data1[i + 1] - data2[i + 1])
         + Abs(data1[i + 2] - data2[i + 2])
         + Abs(data1[i + 3] - data2[i + 3])
         + SumFrom(data1, data2, i + 4 * 4)

\* Mutation: the sum is divided by the number of pixels that were sampled.
DifferencePerSample(data1, data2) ==
    Quot(SumFrom(data1, data2, 0), (Len(data1) + 15) \div 16)

calculateFrameDifference(data1, data2) ==
    Quot(4 * SumFrom(data1, data2, 0), Len(data1))

(***************************************************************************)
(* The video source.                                                       *)
(***************************************************************************)
\* ctx.getImageData(0, 0, processWidth, processHeight).data of a frame that
\* shows the gray level g everywhere.
RECURSIVE Pixels(_, _)
Pixels(g, n) == IF n = 0 THEN <<>> ELSE <<g, g, g, 255>> \o Pixels(g, n - 1)

FrameData(g) == Pixels(g, processWidth)

\* outputCanvas.toDataURL('image/jpeg', 0.9) of file f at time t.
DataUrl(f, t) == [kind |-> "frame", file |-> f, t |-> t, v |-> 0]

\* The image generateSketch returns for originalUrl u (variant v).
SketchUrl(u, v) == [kind |-> "sketch", file |-> u.file, t |-> u.t, v |-> v]

\* Mutation: toFixed(0), which rounds 0.50 and 1.00 to the same text.
ToFixed0(t) == <<(t + 50) \div 100>>

\* processedTime.toFixed(2): integer part, '.', two decimals.
ToFixed2(t) == <<t \div 100, ".", (t % 100) \div 10, t % 10>>

\* `frame-${processedTime.toFixed(2)}`
FrameId(t) == <<"frame-">> \o ToFixed2(t)

Keyframe(f, t) ==
    [id |-> FrameId(t), time |-> t, imageUrl |-> DataUrl(f, t),
     originalUrl |-> DataUrl(f, t), isSketch |-> FALSE, caption |-> NoCaption]


(***************************************************************************)
(* App and VideoProcessor state.                                           *)
(***************************************************************************)
\* setProgress(0), setProgress(100)
Zero == Quot(0, 1)
Hundred == Quot(100, 1)

\* A sketch worker that is not running (not started, or returned).
IdleWorker == [pc |-> "idle", index |-> 0, url |-> DataUrl(NoFile, 0)]

\* No VideoProcessor is rendered (appState is not ANALYZING).
Unmounted ==
    [mounted |-> FALSE, file |-> NoFile, status |-> "none", error |-> "", run |-> 0]

\* No function of utils/imageProcessing has been called.
NoCall == [fn |-> "none"]

\* useState / useRef initial values of App; nothing has been uploaded.
Init ==
    /\ appState = "IDLE"
    /\ videoFile = NoFile
    /\ frames = <<>>
    /\ progress = Zero
    /\ isConverting = FALSE
    /\ processor = Unmounted
    /\ runs = <<>>
    /\ uploads = 0
    /\ framesToProcess = <<>>
    /\ sketchWorkers = [w \in 1..sketchConcurrency |-> IdleWorker]
    /\ saved = [kind |-> "none", pages |-> <<>>]
    /\ call = NoCall
    /\ captionsProcessing = FALSE
    /\ captionPools = <<>>

sketchVars == <<isConverting, framesToProcess, sketchWorkers>>
captionVars == <<captionsProcessing, captionPools>>

\* handleFileChange: a file was chosen in the input the IDLE view renders.
\* App renders VideoProcessor, whose effect sets video.src and calls load().
FileChosen(limit) ==
    /\ appState = "IDLE"
    /\ uploads < limit
    /\ uploads' = uploads + 1
    /\ videoFile' = uploads + 1
    /\ appState' = "ANALYZING"
    /\ frames' = <<>>
    /\ progress' = Zero
    /\ processor' = [mounted |-> TRUE, file |-> uploads + 1, status |-> "loading",
                     error |-> "", run |-> 0]
    /\ UNCHANGED <<runs, saved>>
    /\ UNCHANGED call
    /\ UNCHANGED captionVars
    /\ UNCHANGED sketchVars

handleFileChange == FileChosen(MaxUploads)

\* resetApp ('Clear Paper', rendered while appState is not IDLE).
resetApp ==
    /\ appState # "IDLE"
    /\ appState' = "IDLE"
    /\ videoFile' = NoFile
    /\ frames' = <<>>
    /\ progress' = Zero
    /\ processor' = Unmounted
    /\ UNCHANGED <<runs, uploads, saved>>
    /\ UNCHANGED call
    /\ captionsProcessing' = FALSE
    /\ UNCHANGED captionPools
    /\ UNCHANGED sketchVars

(***************************************************************************)
(* VideoProcessor.startProcessing and its processInterval loop.            *)
(***************************************************************************)
\* Mutation: the loop ends one sample early.
LoopEndsEarly(processedTime, duration) == processedTime + sampleRate >= duration

\* if (processedTime >= duration)
LoopEnds(processedTime, duration) == processedTime >= duration

\* processedTime += sampleRate
NextSampleTime(processedTime) == processedTime + sampleRate

\* Mutation: the threshold itself counts as a change (>= for >).
IsKeyframeAtLeast(lastFrameData, currentData) ==
    IF lastFrameData = NoFrame THEN TRUE
    ELSE LET d == calculateFrameDifference(lastFrameData, currentData)
         IN  d.den > 0 /\ d.num >= threshold * d.den

\* if (!lastFrameData) isKeyframe = true
\* else isKeyframe = calculateFrameDifference(lastFrameData, currentData) > threshold
IsKeyframe(lastFrameData, currentData) ==
    IF lastFrameData = NoFrame THEN TRUE
    ELSE QuotGt(calculateFrameDifference(lastFrameData, currentData), threshold)

\* Mutation: the buffer of every sample is kept, accepted or not.
KeepEverySample(lastFrameData, currentData, isKeyframe) == currentData

\* if (isKeyframe) { ...; lastFrameData = new Uint8ClampedArray(currentData) }
NextLastFrameData(lastFrameData, currentData, isKeyframe) ==
    IF isKeyframe THEN currentData ELSE lastFrameData

\* if (outCtx) frames.push({...})
PushFrame(list, file, processedTime, isKeyframe, outCtx) ==
    IF isKeyframe /\ outCtx THEN Append(list, Keyframe(file, processedTime)) ELSE list

\* The closure of one startProcessing call that reached 'Start loop'.
\*   currentTime, shown, pending: the video element (the seek target, the
\*     time of the frame it shows, the seeks not yet confirmed);
\*   seen, accepted: the gray level drawn and the isKeyframe decision of the
\*     last two samples (history, newest last);
\*   drawnAt: the time of the frame the element showed at the last draw;
\*   constant: every sample so far showed the same gray level;
\*   seeks, decided: seeks issued and keyframe decisions taken so far;
\*   delivered: calls of onProcessingComplete.
NewRun(file, duration) ==
    [file |-> file, duration |-> duration, processedTime |-> 0,
     lastFrameData |-> NoFrame, frames |-> <<>>, pc |-> "timer",
     currentTime |-> 0, shown |-> 0, pending |-> 0,
     seen |-> <<>>, accepted |-> <<>>, drawnAt |-> 0, constant |-> TRUE,
     seeks |-> 0, decided |-> 0, delivered |-> 0]

\* Mutation: the seek is issued but not awaited; the timer stays armed.
IssueSeekNoAwait(run) ==
    [run EXCEPT !.currentTime = run.processedTime,
                !.pending = run.pending + 1,
                !.seeks = run.seeks + 1]

\* video.currentTime = processedTime; await new Promise(... 'seeked' ...)
IssueSeek(run) ==
    [run EXCEPT !.currentTime = run.processedTime,
                !.pending = run.pending + 1,
                !.seeks = run.seeks + 1,
                !.pc = "seeking"]

\* onProcessingComplete(frames); return;  The loop is over and nothing refers
\* to the closure's locals any more: only the file and the count are kept.
Complete(run) ==
    [NewRun(run.file, 0) EXCEPT !.pc = "done", !.delivered = run.delivered + 1]

\* The VideoProcessor that started run r is still rendered.
Observed(r) == processor.mounted /\ processor.run = r

\* onLoadedData: if (videoFile) startProcessing().  getContext('2d') of the
\* processing canvas may return null; otherwise the loop starts and runs to
\* its first await (every duration of Durations is positive).
LoadedData ==
    /\ processor.mounted
    /\ processor.status = "loading"
    /\ \E ctx \in BOOLEAN, duration \in Durations :
         IF ~ctx
         THEN /\ processor' = [processor EXCEPT !.status = "failed",
                                                !.error = "no canvas context"]
              /\ runs' = runs
         ELSE /\ runs' = Append(runs, IssueSeek(NewRun(processor.file, duration)))
              /\ processor' = [processor EXCEPT !.status = "running",
                                                !.run = Len(runs) + 1]
    /\ UNCHANGED <<appState, videoFile, frames, progress, uploads, saved>>
    /\ UNCHANGED call
    /\ UNCHANGED captionVars
    /\ UNCHANGED sketchVars

\* onError={() => setError(...)}: the source failed to load.
VideoError ==
    /\ processor.mounted
    /\ processor.status = "loading"
    /\ processor' = [processor EXCEPT !.status = "failed",
                                      !.error = "video load failed"]
    /\ UNCHANGED <<appState, videoFile, frames, progress, runs, uploads, saved>>
    /\ UNCHANGED call
    /\ UNCHANGED captionVars
    /\ UNCHANGED sketchVars

\* setTimeout(processInterval, 10) fires: either the loop ends and
\* onProcessingComplete(frames) runs App.handleProcessingComplete
\* (setFrames, setAppState(READY), setProgress(100), which unmounts the
\* VideoProcessor), or the next seek is issued.
ProcessInterval(r) ==
    /\ runs[r].pc = "timer"
    /\ IF LoopEnds(runs[r].processedTime, runs[r].duration)
       THEN /\ runs' = [runs EXCEPT ![r] = Complete(runs[r])]
            /\ frames' = runs[r].frames
            /\ appState' = "READY"
            /\ progress' = Hundred
            /\ processor' = Unmounted
       ELSE /\ runs' = [runs EXCEPT ![r] = IssueSeek(runs[r])]
            /\ UNCHANGED <<frames, appState, progress, processor>>
    /\ UNCHANGED <<videoFile, uploads, saved>>
    /\ UNCHANGED call
    /\ UNCHANGED captionVars
    /\ UNCHANGED sketchVars

LastTwo(s) == IF Len(s) > 2 THEN Tail(s) ELSE s

\* The rest of processInterval after 'seeked': draw, getImageData, decide,
\* keep the keyframe, onProgress (App.setProgress), advance, re-arm the timer.
Sampled(run, g, outCtx) ==
    LET currentData == FrameData(g)
        isKeyframe == IsKeyframe(run.lastFrameData, currentData)
    IN [run EXCEPT
          !.frames = PushFrame(run.frames, run.file, run.processedTime, isKeyframe, outCtx),
          !.lastFrameData = NextLastFrameData(run.lastFrameData, currentData, isKeyframe),
          !.processedTime = NextSampleTime(run.processedTime),
          !.pc = "timer",
          !.seen = LastTwo(Append(run.seen, g)),
          !.accepted = LastTwo(Append(run.accepted, isKeyframe)),
          !.drawnAt = run.shown,
          !.decided = run.decided + 1,
          !.constant = run.constant /\ (run.seen = <<>> \/ run.seen[Len(run.seen)] = g)]

\* The 'seeked' event of run r's video element: the seek is confirmed, the
\* element shows the frame at currentTime, and the awaiting loop continues.
Seeked(r) ==
    /\ runs[r].pc = "seeking"
    /\ runs[r].pending > 0
    /\ \E g \in Levels, outCtx \in BOOLEAN :
         LET confirmed == [runs[r] EXCEPT !.pending = runs[r].pending - 1,
                                          !.shown = runs[r].currentTime]
         IN  /\ (outCtx \/ IsKeyframe(runs[r].lastFrameData, FrameData(g)))
             /\ runs' = [runs EXCEPT ![r] = Sampled(confirmed, g, outCtx)]
    /\ progress' = Quot(100 * runs[r].processedTime, runs[r].duration)
    /\ UNCHANGED <<appState, videoFile, frames, processor, uploads, saved>>
    /\ UNCHANGED call
    /\ UNCHANGED captionVars
    /\ UNCHANGED sketchVars

(***************************************************************************)
(* App.handleConvertToSketch: three workers over one shared queue.         *)
(***************************************************************************)
\* newFrames.map((frame, index) => ({ frame, index }))   (index from 0)
Indexed(list) == [i \in 1..Len(list) |-> [frame |-> list[i], index |-> i - 1]]

\* Mutation: no frame is skipped.
SkipNothing(frame) == FALSE

\* if (frame.isSketch) continue;
SkipSketched(frame) == frame.isSketch

\* Mutation: the worker reads the head of the queue without removing it.
PeekItem(queue) ==
    IF queue = <<>> THEN [queue |-> <<>>, worker |-> IdleWorker]
    ELSE [queue |-> queue,
          worker |-> [pc |-> "await", index |-> Head(queue).index,
                      url |-> Head(queue).frame.originalUrl]]

\* The worker's loop from its while test to its next suspension:
\* framesToProcess.shift() until an item is not skipped (generateSketch is
\* called and awaited) or the queue is empty (the worker returns).
RECURSIVE TakeItem(_)
TakeItem(queue) ==
    IF queue = <<>> THEN [queue |-> <<>>, worker |-> IdleWorker]
    ELSE IF SkipSketched(Head(queue).frame) THEN TakeItem(Tail(queue))
    ELSE [queue |-> Tail(queue),
          worker |-> [pc |-> "await", index |-> Head(queue).index,
                      url |-> Head(queue).frame.originalUrl]]

\* Array(concurrency).fill(null).map(() => worker()): the workers start one
\* after the other, each running to its first await.
RECURSIVE StartWorkers(_, _, _)
StartWorkers(queue, workers, w) ==
    IF w > sketchConcurrency THEN [queue |-> queue, workers |-> workers]
    ELSE LET t == TakeItem(queue)
         IN  StartWorkers(t.queue, [workers EXCEPT ![w] = t.worker], w + 1)

\* await Promise.all(...) has resolved: no worker is suspended any more.
AllReturned(workers) == \A w \in DOMAIN workers : workers[w].pc = "idle"

\* Mutation: the entry is rebuilt from the worker's own image instead of
\* from the current entry.
ApplySketchToSnapshot(current, index, sketchUrl) ==
    IF index >= Len(current) THEN current
    ELSE [current EXCEPT ![index + 1] =
            [Keyframe(sketchUrl.file, sketchUrl.t) EXCEPT !.imageUrl = sketchUrl,
                                                          !.isSketch = TRUE]]

\* Mutation: the image is replaced but the keyframe is not marked as a sketch.
ApplySketchUnflagged(current, index, sketchUrl) ==
    IF index >= Len(current) THEN current
    ELSE [current EXCEPT ![index + 1].imageUrl = sketchUrl]

\* setFrames(current => { if (index >= current.length || !current[index])
\*   return current; updated[index] = {...updated[index], imageUrl, isSketch} })
ApplySketch(current, index, sketchUrl) ==
    IF index >= Len(current) THEN current
    ELSE [current EXCEPT ![index + 1].imageUrl = sketchUrl,
                         ![index + 1].isSketch = TRUE]

\* The 'Ink Sketch' / 'Re-Ink' button (READY view, disabled while
\* isConverting).  finally { setIsConverting(false) } runs once every worker
\* has returned, which is at once when no item needed a request.
handleConvertToSketch ==
    /\ appState = "READY"
    /\ ~isConverting
    /\ LET s == StartWorkers(Indexed(frames), sketchWorkers, 1)
       IN  /\ framesToProcess' = s.queue
           /\ sketchWorkers' = s.workers
           /\ isConverting' = ~AllReturned(s.workers)
    /\ UNCHANGED <<appState, videoFile, frames, progress, processor, runs, uploads, saved>>
    /\ UNCHANGED call
    /\ UNCHANGED captionVars

\* generateSketch returned an image to worker w: the frame at its index is
\* updated and the worker goes on with the queue.
SketchReturned(w) ==
    /\ sketchWorkers[w].pc = "await"
    /\ \E v \in SketchVariants :
         frames' = ApplySketch(frames, sketchWorkers[w].index,
                               SketchUrl(sketchWorkers[w].url, v))
    /\ LET t == TakeItem(framesToProcess)
           after == [sketchWorkers EXCEPT ![w] = t.worker]
       IN  /\ framesToProcess' = t.queue
           /\ sketchWorkers' = after
           /\ isConverting' = ~AllReturned(after)
    /\ UNCHANGED <<appState, videoFile, progress, processor, runs, uploads, saved>>
    /\ UNCHANGED call
    /\ UNCHANGED captionVars

\* generateSketch threw (no API key, no image in the response, network):
\* console.error, and the worker goes on with the queue.
SketchFailed(w) ==
    /\ sketchWorkers[w].pc = "await"
    /\ LET t == TakeItem(framesToProcess)
           after == [sketchWorkers EXCEPT ![w] = t.worker]
       IN  /\ framesToProcess' = t.queue
           /\ sketchWorkers' = after
           /\ isConverting' = ~AllReturned(after)
    /\ UNCHANGED <<appState, videoFile, frames, progress, processor, runs, uploads, saved>>
    /\ UNCHANGED call
    /\ UNCHANGED captionVars

Next ==
    \/ handleFileChange
    \/ resetApp
    \/ LoadedData
    \/ VideoError
    \/ \E r \in 1..Len(runs) : ProcessInterval(r)
    \/ \E r \in 1..Len(runs) : Seeked(r)
    \/ handleConvertToSketch
    \/ \E w \in 1..sketchConcurrency : SketchReturned(w)
    \/ \E w \in 1..sketchConcurrency : SketchFailed(w)

Spec == Init /\ [][Next]_vars

\* The steps that need no user: media events, timers, service replies.
ProgramNext ==
    \/ LoadedData
    \/ VideoError
    \/ \E r \in 1..Len(runs) : ProcessInterval(r)
    \/ \E r \in 1..Len(runs) : Seeked(r)
    \/ \E w \in 1..sketchConcurrency : SketchReturned(w)
    \/ \E w \in 1..sketchConcurrency : SketchFailed(w)

\* The event loop runs every armed timer, and (the premise of the liveness
\* claims) the video element confirms every seek it was given.  Nothing is
\* asked of the user's actions or of the remote service.
Fairness ==
    \A r \in 1..MaxUploads :
        /\ WF_vars(r <= Len(runs) /\ ProcessInterval(r))
        /\ WF_vars(r <= Len(runs) /\ Seeked(r))

FairSpec == Init /\ [][Next]_vars /\ Fairness


(***************************************************************************)
(* App: the auto-caption effect, processCaptionsQueue and updateFrame.     *)
(***************************************************************************)
\* What analyzeImage resolves to: the description the service returned, or
\* one of its fallback texts (no key, empty answer, any error).  It catches
\* every error itself, so the worker's catch branch cannot run.
Described == <<"[", "a", "]">>
Fallback == <<"f", "a", "i", "l">>
\* Mutation: response.text?.trim() without its fallback, which may be ''.
CaptionTextsOrEmpty == {Described, NoCaption}

CaptionTexts == {Described, Fallback}

\* A caption worker that is not running.
IdleCaptioner == [pc |-> "idle", id |-> <<>>, url |-> DataUrl(NoFile, 0)]

\* frames.filter(f => f && !f.caption), as the worker uses each frame
Uncaptioned(list) ==
    SelectSeq([i \in 1..Len(list) |-> [id |-> list[i].id, url |-> list[i].originalUrl,
                                       caption |-> list[i].caption]],
              LAMBDA f : f.caption = NoCaption)

\* while (pending.length > 0) { const frame = pending.shift(); ...
\*   await analyzeImage(frame.originalUrl)
TakeCaption(pending) ==
    IF pending = <<>> THEN [pending |-> <<>>, worker |-> IdleCaptioner]
    ELSE [pending |-> Tail(pending),
          worker |-> [pc |-> "await", id |-> Head(pending).id, url |-> Head(pending).url]]

\* Array(concurrency).fill(null).map(() => worker())
RECURSIVE StartCaptioners(_, _, _)
StartCaptioners(pending, workers, w) ==
    IF w > captionConcurrency THEN [pending |-> pending, workers |-> workers]
    ELSE LET t == TakeCaption(pending)
         IN  StartCaptioners(t.pending, [workers EXCEPT ![w] = t.worker], w + 1)

\* processCaptionsQueue(queue) up to its await Promise.all(workers)
StartCaptionPool(queue) ==
    StartCaptioners(queue, [w \in 1..captionConcurrency |-> IdleCaptioner], 1)

\* Mutation: an append-based update (the updated keyframe moves to the end).
updateFrameByAppend(prev, id, caption) ==
    SelectSeq(prev, LAMBDA f : f.id # id)
    \o [i \in 1..Len(SelectSeq(prev, LAMBDA f : f.id = id)) |->
          [SelectSeq(prev, LAMBDA f : f.id = id)[i] EXCEPT !.caption = caption]]

\* setFrames(prev => prev.map(f => (f && f.id === id) ? {...f, ...updates} : f))
updateFrame(prev, id, caption) ==
    [i \in 1..Len(prev) |->
        IF prev[i].id = id THEN [prev[i] EXCEPT !.caption = caption] ELSE prev[i]]

RemoveAt(s, p) == SubSeq(s, 1, p - 1) \o SubSeq(s, p + 1, Len(s))

\* useEffect(..., [appState, frames, captionsProcessing]): after a render in
\* which the App is READY, has frames, is not captioning and some frame has
\* no caption, processCaptionsQueue is called with those frames.
AutoCaption ==
    /\ appState = "READY"
    /\ Len(frames) > 0
    /\ ~captionsProcessing
    /\ Uncaptioned(frames) # <<>>
    /\ captionsProcessing' = TRUE
    /\ captionPools' = Append(captionPools, StartCaptionPool(Uncaptioned(frames)))
    /\ UNCHANGED <<appState, videoFile, frames, progress, processor, runs, uploads, saved>>
    /\ UNCHANGED call
    /\ UNCHANGED sketchVars

\* analyzeImage resolved for worker w of pool p: updateFrame(frame.id,
\* {caption}), and the worker goes on with the pool's queue; when the last
\* worker of the pool has returned, setCaptionsProcessing(false).
CaptionReturned(p, w) ==
    /\ captionPools[p].workers[w].pc = "await"
    /\ \E caption \in CaptionTexts :
         frames' = updateFrame(frames, captionPools[p].workers[w].id, caption)
    /\ LET t == TakeCaption(captionPools[p].pending)
           after == [captionPools[p].workers EXCEPT ![w] = t.worker]
       IN  IF AllReturned(after)
           THEN /\ captionPools' = RemoveAt(captionPools, p)
                /\ captionsProcessing' = FALSE
           ELSE /\ captionPools' = [captionPools EXCEPT
                                      ![p] = [pending |-> t.pending, workers |-> after]]
                /\ UNCHANGED captionsProcessing
    /\ UNCHANGED <<appState, videoFile, progress, processor, runs, uploads, saved>>
    /\ UNCHANGED call
    /\ UNCHANGED sketchVars

(***************************************************************************)
(* The App with its two worker pools.  The extraction is taken as a whole: *)
(* it ends by calling handleProcessingComplete with its keyframes.         *)
(***************************************************************************)
\* The keyframes of an extraction of file f that accepted n samples.
Extracted(f, n) == [p \in 1..n |-> Keyframe(f, sampleRate * (p - 1))]

\* handleProcessingComplete(extractedFrames), called by the run of the
\* rendered VideoProcessor.
handleProcessingComplete ==
    /\ appState = "ANALYZING"
    /\ processor.mounted
    /\ \E n \in 0..MaxKeyframes : frames' = Extracted(videoFile, n)
    /\ appState' = "READY"
    /\ progress' = Hundred
    /\ processor' = Unmounted
    /\ UNCHANGED <<videoFile, runs, uploads, saved>>
    /\ UNCHANGED call
    /\ UNCHANGED captionVars
    /\ UNCHANGED sketchVars

PoolNext ==
    \/ FileChosen(MaxPoolUploads)
    \/ resetApp
    \/ handleProcessingComplete
    \/ AutoCaption
    \/ \E p \in 1..Len(captionPools), w \in 1..captionConcurrency : CaptionReturned(p, w)
    \/ handleConvertToSketch
    \/ \E w \in 1..sketchConcurrency : SketchReturned(w)
    \/ \E w \in 1..sketchConcurrency : SketchFailed(w)

PoolSpec == Init /\ [][PoolNext]_vars

\* React runs the effect after every render whose dependencies changed, and
\* (the premise of the liveness claim) an analyzeImage call that is awaited
\* settles.  Nothing is asked of the user's actions or of generateSketch.
CaptionFairness ==
    /\ WF_vars(AutoCaption)
    /\ WF_vars(\E p \in 1..Len(captionPools), w \in 1..captionConcurrency :
                  CaptionReturned(p, w))

FairPoolSpec == Init /\ [][PoolNext]_vars /\ CaptionFairness

\* The App in READY with n keyframes of one extraction and one pool with
\* more items than workers ahead of it: either every keyframe is already a
\* sketch and the caption pool has just started, or every keyframe has its
\* caption and 'Ink Sketch' has not been clicked yet.
QueueInit ==
    /\ appState = "READY"
    /\ videoFile = 1
    /\ uploads = 1
    /\ progress = Hundred
    /\ processor = Unmounted
    /\ runs = <<Complete(NewRun(1, 0))>>
    /\ isConverting = FALSE
    /\ framesToProcess = <<>>
    /\ sketchWorkers = [w \in 1..sketchConcurrency |-> IdleWorker]
    /\ saved = [kind |-> "none", pages |-> <<>>]
    /\ call = NoCall
    /\ \E n \in 1..MaxQueue :
         \/ /\ frames = [p \in 1..n |->
                           LET f == Extracted(1, n)[p]
                           IN  [f EXCEPT !.imageUrl = SketchUrl(f.originalUrl, 1),
                                         !.isSketch = TRUE]]
            /\ captionsProcessing = TRUE
            /\ captionPools = <<StartCaptionPool(Uncaptioned(frames))>>
         \/ /\ frames = [p \in 1..n |-> [Extracted(1, n)[p] EXCEPT !.caption = Described]]
            /\ captionsProcessing = FALSE
            /\ captionPools = <<>>

QueueNext ==
    \/ \E p \in 1..Len(captionPools), w \in 1..captionConcurrency : CaptionReturned(p, w)
    \/ handleConvertToSketch
    \/ \E w \in 1..sketchConcurrency : SketchReturned(w)
    \/ \E w \in 1..sketchConcurrency : SketchFailed(w)

QueueSpec == QueueInit /\ [][QueueNext]_vars

(***************************************************************************)
(* utils/storyboardGenerator.generateStoryboardImages and                  *)
(* App.handleDownloadStoryboard.                                           *)
(***************************************************************************)
\* Iterations of for (i = 0; i < frames.length; i += framesPerPage).
PageCount(n) == (n + framesPerPage - 1) \div framesPerPage

\* frames.slice(i, i + framesPerPage)   (i from 0)
Slice(list, i) == SubSeq(list, i + 1, Min(i + framesPerPage, Len(list)))

\* The text drawn for a keyframe without caption.
Placeholder == <<".", ".", ".">>

\* What one iteration of 'Draw Frames' puts on the canvas for pageFrames[j]:
\* the box at (col, row), the image when loadImage resolved, the shot number
\* (i + j + 1) and frame.caption || placeholder.
Cell(frame, i, j, loaded) ==
    [shot |-> i + j + 1, col |-> j % cols, row |-> j \div cols,
     image |-> [drawn |-> loaded, url |-> frame.imageUrl],
     caption |-> IF frame.caption = NoCaption THEN Placeholder ELSE frame.caption]

\* canvas.toDataURL of the page that starts at frame i.
Page(list, i, imgOk) ==
    LET pageFrames == Slice(list, i)
    IN  [header |-> (i \div framesPerPage) + 1,
         cells |-> [k \in 1..Len(pageFrames) |->
                      Cell(pageFrames[k], i, k - 1, imgOk[i + k])]]

\* The page loop from frame i on.  ctxOk[p] is whether getContext('2d')
\* returned a context in iteration p:  if (!ctx) continue;
RECURSIVE PagesFrom(_, _, _, _)
PagesFrom(list, i, ctxOk, imgOk) ==
    IF i >= Len(list) THEN <<>>
    ELSE (IF ctxOk[(i \div framesPerPage) + 1]
          THEN <<Page(list, i, imgOk)>> ELSE <<>>)
         \o PagesFrom(list, i + framesPerPage, ctxOk, imgOk)

generateStoryboardImages(list, ctxOk, imgOk) == PagesFrom(list, 0, ctxOk, imgOk)

\* The 'Sheet' button of the READY view: the pages are made from the
\* current frames; one page is saved as a .jpg, any other number as a .zip.
\* At most one image fails to load in a call.
handleDownloadStoryboard ==
    /\ appState = "READY"
    /\ \E ctxOk \in [1..PageCount(Len(frames)) -> BOOLEAN], bad \in 0..Len(frames) :
         LET imgOk == [k \in 1..Len(frames) |-> k # bad]
             pages == generateStoryboardImages(frames, ctxOk, imgOk)
         IN  saved' = [kind |-> IF Len(pages) = 1 THEN "jpg" ELSE "zip",
                       pages |-> pages]
    /\ UNCHANGED <<appState, videoFile, frames, progress, processor, runs, uploads>>
    /\ UNCHANGED call
    /\ UNCHANGED captionVars
    /\ UNCHANGED sketchVars

\* The App in READY after one extraction: n keyframes, half a second apart,
\* of which the first k have been turned into sketches.
ExportInit ==
    /\ appState = "READY"
    /\ videoFile = 1
    /\ uploads = 1
    /\ progress = Hundred
    /\ processor = Unmounted
    /\ runs = <<Complete(NewRun(1, 0))>>
    /\ isConverting = FALSE
    /\ framesToProcess = <<>>
    /\ sketchWorkers = [w \in 1..sketchConcurrency |-> IdleWorker]
    /\ saved = [kind |-> "none", pages |-> <<>>]
    /\ call = NoCall
    /\ captionsProcessing = FALSE
    /\ captionPools = <<>>
    /\ \E n \in 0..MaxFrames, k \in 0..MaxFrames :
         /\ k <= n
         /\ frames = [p \in 1..n |->
                        LET f == Keyframe(1, sampleRate * (p - 1))
                        IN  IF p <= k
                            THEN [f EXCEPT !.imageUrl = SketchUrl(f.originalUrl, 1),
                                           !.isSketch = TRUE]
                            ELSE f]

ExportNext == handleDownloadStoryboard

ExportSpec == ExportInit /\ [][ExportNext]_vars

(***************************************************************************)
(* utils/imageProcessing: applySketchEffect and boxBlur.                   *)
(* A Float32Array cell is kept as an exact fraction.  The rasters of       *)
(* ImageSpec have black and white pixels only; for these every luminance   *)
(* is 0 or 255 and every result of the colour dodge is 0 or at least 255,  *)
(* whatever the rounding of the averages in between.                       *)
(***************************************************************************)
Max(a, b) == IF a > b THEN a ELSE b

RAdd(a, b) == Quot(a.num * b.den + b.num * a.den, a.den * b.den)

\* const blurRadius = 4
blurRadius == 4

\* Mutation: the column wraps around to the opposite edge.
WrapColumn(w, x, k) == (x + k) % w

\* const px = Math.min(w - 1, Math.max(0, x + k))
ClampColumn(w, x, k) == Min(w - 1, Max(0, x + k))

\* const py = Math.min(h - 1, Math.max(0, y + k))
ClampRow(h, y, k) == Min(h - 1, Max(0, y + k))

\* The flat indices the horizontal pass reads for the cell (x, y), one per
\* k = -radius .. radius:  data[y * w + px]
HorizontalReads(w, x, y, radius) ==
    [j \in 1..2 * radius + 1 |-> y * w + ClampColumn(w, x, j - 1 - radius)]

\* The flat indices the vertical pass reads:  temp[py * w + x]
VerticalReads(w, h, x, y, radius) ==
    [j \in 1..2 * radius + 1 |-> ClampRow(h, y, j - 1 - radius) * w + x]

\* sum += cells[index] over the indices read (cells is indexed from 0)
RECURSIVE SumAt(_, _, _)
SumAt(cells, reads, j) ==
    IF j > Len(reads) THEN Quot(0, 1)
    ELSE RAdd(cells[reads[j] + 1], SumAt(cells, reads, j + 1))

\* sum / count, count being the number of indices read
Average(cells, reads) ==
    LET sum == SumAt(cells, reads, 1) IN Quot(sum.num, sum.den * Len(reads))

\* boxBlur(data, w, h, radius): the horizontal pass into temp, then the
\* vertical pass over temp into output.
boxBlur(data, w, h, radius) ==
    LET temp == [c \in 1..w * h |->
                   Average(data, HorizontalReads(w, (c - 1) % w, (c - 1) \div w, radius))]
    IN  [c \in 1..w * h |->
           Average(temp, VerticalReads(w, h, (c - 1) % w, (c - 1) \div w, radius))]

\* Every flat index a boxBlur call reads, with the cell and the offset it is
\* read for.
BlurReads(w, h, radius) ==
    {[pass |-> "horizontal", x |-> x, y |-> y, k |-> j - 1 - radius,
      index |-> HorizontalReads(w, x, y, radius)[j]] :
        x \in 0..w - 1, y \in 0..h - 1, j \in 1..2 * radius + 1}
    \cup
    {[pass |-> "vertical", x |-> x, y |-> y, k |-> j - 1 - radius,
      index |-> VerticalReads(w, h, x, y, radius)[j]] :
        x \in 0..w - 1, y \in 0..h - 1, j \in 1..2 * radius + 1}

\* const gray = 0.299 * data[i] + 0.587 * data[i + 1] + 0.114 * data[i + 2]
Luminance(data, i) ==
    Quot(299 * data[i + 1] + 587 * data[i + 2] + 114 * data[i + 3], 1000)

\* A value stored into a Uint8ClampedArray: rounded to the nearest integer,
\* halves to the even one, and clamped to 0..255.
ToUint8(q) ==
    LET floor == q.num \div q.den
        twice == 2 * (q.num - floor * q.den)
        near == IF twice < q.den THEN floor
                ELSE IF twice > q.den THEN floor + 1
                ELSE IF floor % 2 = 0 THEN floor ELSE floor + 1
    IN  Min(255, Max(0, near))

\* if (blend === 255) result = 255
\* else result = Math.min(255, (base * 255) / (255 - blend))
\* with blend = 255 - blurred, so that 255 - blend = blurred.
ColorDodge(base, blurred) ==
    IF blurred.num = 0 THEN 255
    ELSE ToUint8(Quot(base.num * 255 * blurred.den, base.den * blurred.num))

\* The pixels applySketchEffect puts back: R = G = B = result, alpha kept.
applySketchEffect(data, w, h) ==
    LET grayData == [c \in 1..w * h |-> Luminance(data, 4 * (c - 1))]
        blurredGray == boxBlur(grayData, w, h, blurRadius)
    IN  [i \in 1..Len(data) |->
           IF i % 4 = 0 THEN data[i]
           ELSE ColorDodge(grayData[(i - 1) \div 4 + 1], blurredGray[(i - 1) \div 4 + 1])]

\* An all-0 and an all-255 pixel of a buffer; an opaque black and an opaque
\* white pixel of a decoded image.
Zeros == <<0, 0, 0, 0>>
Ones == <<255, 255, 255, 255>>
Black == Pixels(0, 1)
White == Pixels(255, 1)

\* The RGBA bytes of a sequence of pixels.
RECURSIVE Bytes(_)
Bytes(pixels) == IF pixels = <<>> THEN <<>> ELSE Head(pixels) \o Bytes(Tail(pixels))

\* Buffers of n pixels, each all-0 or all-255.
Buffers(n) == {Bytes(px) : px \in [1..n -> {Zeros, Ones}]}

\* Rasters of n pixels: one colour, or one pixel of the other colour.
Rasters(n) ==
    {Bytes([c \in 1..n |-> IF c = dot THEN other ELSE ground]) :
        dot \in 0..n, ground \in {Black, White}, other \in {Black, White}}

\* A call of one of the three functions, before it has run.
ImageInit ==
    /\ appState = "IDLE"
    /\ videoFile = NoFile
    /\ frames = <<>>
    /\ progress = Zero
    /\ isConverting = FALSE
    /\ processor = Unmounted
    /\ runs = <<>>
    /\ uploads = 0
    /\ framesToProcess = <<>>
    /\ sketchWorkers = [w \in 1..sketchConcurrency |-> IdleWorker]
    /\ saved = [kind |-> "none", pages |-> <<>>]
    /\ captionsProcessing = FALSE
    /\ captionPools = <<>>
    /\ \/ \E n \in 0..MaxPixels : \E data1, data2 \in Buffers(n) :
            call = [fn |-> "calculateFrameDifference", pc |-> "called",
                    data1 |-> data1, data2 |-> data2]
       \/ \E w, h \in 1..MaxSide : \E data \in Rasters(w * h), ctx \in BOOLEAN :
            call = [fn |-> "applySketchEffect", pc |-> "called",
                    data |-> data, w |-> w, h |-> h, ctx |-> ctx]
       \/ \E w, h \in 1..MaxSide, radius \in 0..MaxRadius :
            \E data \in {[c \in 1..w * h |-> Quot(g, 1)] : g \in {0, 255}} :
              call = [fn |-> "boxBlur", pc |-> "called",
                      data |-> data, w |-> w, h |-> h, radius |-> radius]

appVars ==
    <<appState, videoFile, frames, progress, isConverting, processor, runs,
      uploads, framesToProcess, sketchWorkers, saved, captionsProcessing, captionPools>>

DifferenceReturns ==
    /\ call.fn = "calculateFrameDifference" /\ call.pc = "called"
    /\ call' = [fn |-> call.fn, pc |-> "returned", data1 |-> call.data1,
                data2 |-> call.data2,
                result |-> calculateFrameDifference(call.data1, call.data2)]
    /\ UNCHANGED appVars

\* img.onload: reject when there is no 2d context, else resolve with the
\* canvas after putImageData.
SketchEffectReturns ==
    /\ call.fn = "applySketchEffect" /\ call.pc = "called"
    /\ call' = [fn |-> call.fn, pc |-> IF call.ctx THEN "resolved" ELSE "rejected",
                data |-> call.data, w |-> call.w, h |-> call.h, ctx |-> call.ctx,
                result |-> IF call.ctx THEN applySketchEffect(call.data, call.w, call.h)
                           ELSE <<>>]
    /\ UNCHANGED appVars

BlurReturns ==
    /\ call.fn = "boxBlur" /\ call.pc = "called"
    /\ call' = [fn |-> call.fn, pc |-> "returned", data |-> call.data,
                w |-> call.w, h |-> call.h, radius |-> call.radius,
                reads |-> BlurReads(call.w, call.h, call.radius),
                result |-> boxBlur(call.data, call.w, call.h, call.radius)]
    /\ UNCHANGED appVars

ImageNext == DifferenceReturns \/ SketchEffectReturns \/ BlurReturns

ImageSpec == ImageInit /\ [][ImageNext]_vars

(***************************************************************************)
(* utils/storyboardGenerator: the cell geometry, the cover-fit placement   *)
(* and wrapText; App.handleExportTable.                                    *)
(***************************************************************************)
canvasWidth == 2480
canvasHeight == 1754
padding == 60
headerHeight == 100
cellGapX == 40
cellGapY == 50
rows == 3
textAreaHeight == 160
\* wrapText(ctx, captionText, x, captionY, imageWidth, 28)
lineHeight == 28

gridWidth == canvasWidth - (padding * 2)
gridHeight == canvasHeight - (padding * 2) - headerHeight
\* (gridWidth - cellGapX * (cols - 1)) / cols = 560, without remainder
cellWidth == (gridWidth - (cellGapX * (cols - 1))) \div cols
\* (gridHeight - cellGapY * (rows - 1)) / rows = 478, without remainder
cellHeight == (gridHeight - (cellGapY * (rows - 1))) \div rows
imageAreaHeight == cellHeight - textAreaHeight
imageWidth == cellWidth

\* Mutation: the comparison is reversed (the image is fitted inside the box).
ContainFit(imgW, imgH) ==
    IF imgW * imageAreaHeight < imageWidth * imgH
    THEN [drawW |-> Quot(imageAreaHeight * imgW, imgH),
          drawH |-> Quot(imageAreaHeight, 1),
          offX |-> Quot(imageWidth * imgH - imageAreaHeight * imgW, 2 * imgH),
          offY |-> Quot(0, 1)]
    ELSE [drawW |-> Quot(imageWidth, 1),
          drawH |-> Quot(imageWidth * imgH, imgW),
          offX |-> Quot(0, 1),
          offY |-> Quot(imageAreaHeight * imgW - imageWidth * imgH, 2 * imgW)]

\* 'Cover fit logic' for an image of imgW x imgH pixels, in exact fractions:
\* imgAspect > boxAspect is imgW / imgH > imageWidth / imageAreaHeight;
\* then drawW = imageAreaHeight * imgAspect, offX = (imageWidth - drawW) / 2,
\* else drawH = imageWidth / imgAspect, offY = (imageAreaHeight - drawH) / 2.
CoverFit(imgW, imgH) ==
    IF imgW * imageAreaHeight > imageWidth * imgH
    THEN [drawW |-> Quot(imageAreaHeight * imgW, imgH),
          drawH |-> Quot(imageAreaHeight, 1),
          offX |-> Quot(imageWidth * imgH - imageAreaHeight * imgW, 2 * imgH),
          offY |-> Quot(0, 1)]
    ELSE [drawW |-> Quot(imageWidth, 1),
          drawH |-> Quot(imageWidth * imgH, imgW),
          offX |-> Quot(0, 1),
          offY |-> Quot(imageAreaHeight * imgW - imageWidth * imgH, 2 * imgW)]

\* ctx.measureText(line).width: a character is given by its advance width.
RECURSIVE TextWidth(_)
TextWidth(line) == IF line = <<>> THEN 0 ELSE Head(line) + TextWidth(Tail(line))

\* wrapText's loop from character n (from 0) on, and the fillText after it.
\* drawn is the sequence of fillText calls made so far.
RECURSIVE WrapFrom(_, _, _, _, _, _, _)
WrapFrom(text, n, line, y, lineCount, maxWidth, drawn) ==
    IF n >= Len(text) THEN Append(drawn, [line |-> line, y |-> y])
    ELSE LET testLine == Append(line, text[n + 1])
         IN  IF TextWidth(testLine) > maxWidth /\ n > 0
             THEN LET shown == Append(drawn, [line |-> line, y |-> y])
                  IN  IF lineCount + 1 > 4
                      THEN Append(shown, [line |-> <<text[n + 1]>>, y |-> y + lineHeight])
                      ELSE WrapFrom(text, n + 1, <<text[n + 1]>>, y + lineHeight,
                                    lineCount + 1, maxWidth, shown)
             ELSE WrapFrom(text, n + 1, testLine, y, lineCount, maxWidth, drawn)

\* wrapText(ctx, text, x, y, maxWidth, lineHeight): the fillText calls.
wrapText(text, y, maxWidth) == WrapFrom(text, 0, <<>>, y, 0, maxWidth, <<>>)

\* Advance widths of a character, and values of wrapText's maxWidth, in a
\* unit in which a line holds one to three characters.
CharWidths == {1, 2}
WrapWidths == {2, 3}

\* const m = Math.floor(seconds / 60); const s = Math.floor(seconds % 60);
\* `${m}:${s.toString().padStart(2, '0')}`     (time in hundredths)
formatTime(time) ==
    LET m == (time \div 100) \div 60
        sec == (time \div 100) % 60
    IN  <<m, ":", sec \div 10, sec % 10>>

Quote == "\""

\* Mutation: the quotes inside the caption are left as they are.
KeepQuotes(text) == text

\* caption.replace(/"/g, '""')
RECURSIVE DoubleQuotes(_)
DoubleQuotes(text) ==
    IF text = <<>> THEN <<>>
    ELSE (IF Head(text) = Quote THEN <<Quote, Quote>> ELSE <<Head(text)>>)
         \o DoubleQuotes(Tail(text))

\* const safeDesc = frame.caption ? `"${frame.caption.replace(/"/g, '""')}"` : ""
SafeDesc(caption) ==
    IF caption = NoCaption THEN <<>>
    ELSE <<Quote>> \o DoubleQuotes(caption) \o <<Quote>>

\* `${index + 1},${timecode},${safeDesc}\n` for every frame
TableRows(list) ==
    [i \in 1..Len(list) |->
        [shot |-> i, timecode |-> formatTime(list[i].time),
         description |-> SafeDesc(list[i].caption)]]

\* The 'Table' button of the READY view: the CSV handed to saveAs.
handleExportTable ==
    /\ appState = "READY"
    /\ saved' = [kind |-> "csv", pages |-> <<>>,
                 header |-> <<"Shot No.", "Timecode", "Description">>,
                 rows |-> TableRows(frames)]
    /\ UNCHANGED <<appState, videoFile, frames, progress, processor, runs, uploads>>
    /\ UNCHANGED call
    /\ UNCHANGED captionVars
    /\ UNCHANGED sketchVars

\* Captions of up to n characters over a letter, a double quote and a comma.
RECURSIVE Captions(_)
Captions(n) ==
    IF n = 0 THEN {<<>>}
    ELSE Captions(n - 1)
         \cup {Append(c, ch) : c \in Captions(n - 1), ch \in {"a", Quote, ","}}

ImageDims == (1..MaxDim) \cup {imageWidth, imageAreaHeight, 1920, 1080}

\* Either a wrapText call or a cover-fit placement is about to run, or the
\* App is READY with a captioned list and nothing exported yet.
LayoutInit ==
    /\ isConverting = FALSE
    /\ processor = Unmounted
    /\ framesToProcess = <<>>
    /\ sketchWorkers = [w \in 1..sketchConcurrency |-> IdleWorker]
    /\ saved = [kind |-> "none", pages |-> <<>>]
    /\ captionsProcessing = FALSE
    /\ captionPools = <<>>
    /\ \/ /\ appState = "IDLE" /\ videoFile = NoFile /\ uploads = 0
          /\ progress = Zero /\ runs = <<>> /\ frames = <<>>
          /\ \/ \E n \in 0..MaxChars, maxWidth \in WrapWidths :
                  \E text \in [1..n -> CharWidths] :
                    call = [fn |-> "wrapText", pc |-> "called",
                            text |-> text, maxWidth |-> maxWidth]
             \/ \E imgW, imgH \in ImageDims :
                  call = [fn |-> "coverFit", pc |-> "called",
                          imgW |-> imgW, imgH |-> imgH]
       \/ /\ appState = "READY" /\ videoFile = 1 /\ uploads = 1
          /\ progress = Hundred /\ runs = <<Complete(NewRun(1, 0))>>
          /\ call = NoCall
          /\ \E n \in 0..MaxRows : \E cs \in [1..n -> Captions(MaxCaptionLen)] :
               frames = [p \in 1..n |-> [Extracted(1, n)[p] EXCEPT !.caption = cs[p]]]

WrapTextReturns ==
    /\ call.fn = "wrapText" /\ call.pc = "called"
    /\ call' = [fn |-> call.fn, pc |-> "returned", text |-> call.text,
                maxWidth |-> call.maxWidth,
                drawn |-> wrapText(call.text, 0, call.maxWidth)]
    /\ UNCHANGED appVars

ImagePlaced ==
    /\ call.fn = "coverFit" /\ call.pc = "called"
    /\ call' = [fn |-> call.fn, pc |-> "returned", imgW |-> call.imgW,
                imgH |-> call.imgH, placed |-> CoverFit(call.imgW, call.imgH)]
    /\ UNCHANGED appVars

LayoutNext == WrapTextReturns \/ ImagePlaced \/ handleExportTable

LayoutSpec == LayoutInit /\ [][LayoutNext]_vars

(***************************************************************************)
(* Properties of the extraction run.                                       *)
(***************************************************************************)
Last(s) == s[Len(s)]

RunIds == 1..Len(runs)

\* Run r takes the step from the confirmed seek to the re-armed timer: one
\* sample is drawn, read and decided.
SampleStep(r) == runs[r].pc = "seeking" /\ runs'[r].pc # "seeking"

\* Run r calls onProcessingComplete in this step.
CompletionStep(r) == runs'[r].delivered > runs[r].delivered

\* Run r assigns video.currentTime in this step.
SeekStep(r) == runs'[r].seeks > runs[r].seeks

\* C1: the first sample of a run is accepted as a keyframe, and a later
\* sample is accepted if and only if calculateFrameDifference(lastFrameData,
\* currentData) is strictly greater than 15 (exactly 15 is rejected).
C1_DecisionRule ==
    [][\A r \in RunIds : SampleStep(r) =>
         LET cur == FrameData(Last(runs'[r].seen))
             isKf == Last(runs'[r].accepted)
         IN  /\ runs[r].decided = 0 => isKf
             /\ runs[r].decided > 0 =>
                  /\ runs[r].lastFrameData # NoFrame
                  /\ isKf <=> QuotGt(calculateFrameDifference(runs[r].lastFrameData, cur), 15)]_vars

\* A second or later sample whose difference from lastFrameData is exactly
\* 15 has been rejected.
C1_Witness ==
    \E r \in RunIds :
        /\ runs[r].decided >= 2
        /\ ~Last(runs[r].accepted)
        /\ calculateFrameDifference(runs[r].lastFrameData,
                                    FrameData(Last(runs[r].seen))) = Quot(15, 1)

\* C2: a rejected sample leaves lastFrameData unchanged and an accepted one
\* replaces it by the current buffer, so that a sample following a rejected
\* one is still judged against the last accepted buffer: it is accepted when
\* it differs from that buffer by more than 15, however little it differs
\* from the rejected sample before it.
C2_LastAccepted ==
    [][\A r \in RunIds : SampleStep(r) =>
         LET cur == FrameData(Last(runs'[r].seen))
             isKf == Last(runs'[r].accepted)
         IN  /\ isKf => runs'[r].lastFrameData = cur
             /\ ~isKf => runs'[r].lastFrameData = runs[r].lastFrameData
             /\ (/\ runs[r].decided > 0
                 /\ ~Last(runs[r].accepted)
                 /\ QuotGt(calculateFrameDifference(runs[r].lastFrameData, cur), 15))
                => isKf]_vars

\* A drifting source: the last sample differs from the one before it by no
\* more than 15, that one was rejected, and the last sample is a keyframe.
C2_Witness ==
    \E r \in RunIds :
        /\ Len(runs[r].seen) = 2
        /\ runs[r].accepted = <<FALSE, TRUE>>
        /\ ~QuotGt(calculateFrameDifference(FrameData(runs[r].seen[1]),
                                            FrameData(runs[r].seen[2])), 15)
        /\ runs[r].lastFrameData = FrameData(runs[r].seen[2])
        /\ runs[r].frames # <<>>
        /\ Last(runs[r].frames).time = runs[r].processedTime - sampleRate

\* C3: per sample the order is seek issued, seek confirmed, pixels drawn and
\* read, decision; a seek is issued only when every earlier sample has been
\* decided, so at most one seek is outstanding in a run.
C3_SeekOrder ==
    /\ [](\A r \in RunIds :
            /\ runs[r].pending \in {0, 1}
            /\ runs[r].pending = runs[r].seeks - runs[r].decided
            /\ runs[r].pc = "seeking" <=> runs[r].pending = 1)
    /\ [][\A r \in RunIds :
            /\ SeekStep(r) =>
                 /\ runs[r].pending = 0
                 /\ runs[r].decided = runs[r].seeks
                 /\ runs'[r].currentTime = runs[r].processedTime
            /\ SampleStep(r) =>
                 /\ runs[r].pending = 1 /\ runs'[r].pending = 0
                 /\ runs[r].currentTime = runs[r].processedTime
                 /\ runs'[r].drawnAt = runs[r].processedTime
                 /\ runs'[r].decided = runs[r].decided + 1]_vars

\* The third seek of a run is outstanding, two samples having been decided.
C3_Witness ==
    \E r \in RunIds :
        /\ runs[r].pc = "seeking"
        /\ runs[r].seeks = 3
        /\ runs[r].decided = 2
        /\ runs[r].currentTime = 2 * sampleRate

\* The times of a keyframe list increase by at least the sample interval.
Spaced(list) ==
    \A i \in 1..Len(list) - 1 : list[i + 1].time - list[i].time >= sampleRate

\* C4: if every issued seek is confirmed, a run over a source of finite
\* duration ends: it calls onProcessingComplete, once, with the keyframes it
\* accumulated in sample order, and not while processedTime < duration.
C4_Terminates ==
    /\ \A r \in 1..MaxUploads :
         (r <= Len(runs)) ~> (r <= Len(runs) /\ runs[r].pc = "done")
    /\ [](\A r \in RunIds :
            /\ runs[r].delivered <= 1
            /\ runs[r].pc = "done" <=> runs[r].delivered = 1)
    /\ [][\A r \in RunIds :
            /\ CompletionStep(r) =>
                 /\ runs[r].processedTime >= runs[r].duration
                 /\ frames' = runs[r].frames
                 /\ Spaced(frames')
                 /\ runs'[r].pc = "done"
            /\ SampleStep(r) =>
                 \/ runs'[r].frames = runs[r].frames
                 \/ /\ Len(runs'[r].frames) = Len(runs[r].frames) + 1
                    /\ SubSeq(runs'[r].frames, 1, Len(runs[r].frames)) = runs[r].frames
                    /\ Last(runs'[r].frames).time = runs[r].processedTime]_vars

\* A run has ended and delivered three keyframes to the App.
C4_Witness ==
    \E r \in RunIds :
        /\ runs[r].pc = "done"
        /\ runs[r].delivered = 1
        /\ appState = "READY"
        /\ Len(frames) = 3

KeyframeLists == {frames} \cup {runs[r].frames : r \in RunIds}

\* C5: in a run's keyframe list the times are strictly increasing, two
\* consecutive keyframes are at least 0.5 s apart, and no two keyframes
\* share a time or an id.
C5_TimesAndIds ==
    \A list \in KeyframeLists :
        /\ Spaced(list)
        /\ \A i, j \in 1..Len(list) :
             i < j => /\ list[i].time < list[j].time
                      /\ list[i].id # list[j].id

\* The App holds a delivered list with keyframes at 0.50 s and 1.00 s.
C5_Witness ==
    /\ appState = "READY"
    /\ \E i \in 1..Len(frames) - 1 :
         frames[i].time = 50 /\ frames[i + 1].time = 100

\* C6: a run over a source whose every frame is identical delivers exactly
\* one keyframe, the sample at time 0.
C6_ConstantSource ==
    [][\A r \in RunIds : (CompletionStep(r) /\ runs[r].constant) =>
         /\ Len(frames') = 1
         /\ frames'[1].time = 0]_vars

\* The VideoProcessor that started run r is gone and the run has not ended.
Abandoned(r) == runs[r].pc # "done" /\ ~Observed(r)

\* C7: the progress and completion reports of an abandoned run do not
\* change the App's appState, frames or progress.
C7_AbandonedRunUnobserved ==
    [][\A r \in RunIds : (Abandoned(r) /\ runs'[r] # runs[r]) =>
         UNCHANGED <<appState, frames, progress>>]_vars

\* C8: once a load failure has been handled and nothing is left to run, the
\* App has left ANALYZING; and only a run that has ended has delivered.
C8_FailureSurfaced ==
    /\ (processor.error = "video load failed" /\ ~ENABLED ProgramNext)
         => appState # "ANALYZING"
    /\ \A r \in RunIds : runs[r].delivered > 0 => runs[r].pc = "done"

\* C9: generateStoryboardImages does not return normally with a page
\* missing: what was saved holds every page of the list, in order.
C9_NoPageMissing ==
    saved.kind # "none" =>
        /\ Len(saved.pages) = PageCount(Len(frames))
        /\ \A p \in 1..Len(saved.pages) : saved.pages[p].header = p

(***************************************************************************)
(* Properties of the keyframe list.                                        *)
(***************************************************************************)
\* C10: a keyframe whose isSketch is true is not sent to generateSketch
\* again and its imageUrl / isSketch are not replaced again.
C10_SketchedOnce ==
    [][/\ \A i \in 1..Len(frames) :
            (/\ i <= Len(frames')
             /\ frames[i].isSketch
             /\ frames'[i].originalUrl = frames[i].originalUrl)
            => /\ frames'[i].isSketch
               /\ frames'[i].imageUrl = frames[i].imageUrl
       /\ \A w \in 1..sketchConcurrency :
            (sketchWorkers'[w].pc = "await" /\ sketchWorkers'[w] # sketchWorkers[w])
            => \A i \in 1..Len(frames) :
                 frames[i].originalUrl = sketchWorkers'[w].url => ~frames[i].isSketch]_vars

\* A second conversion is running on a two-keyframe list: the first keyframe
\* is a sketch and was skipped, so the first worker holds the second one.
C10_Witness ==
    /\ Len(frames) = 2
    /\ frames[1].isSketch
    /\ ~frames[2].isSketch
    /\ isConverting
    /\ sketchWorkers[1].pc = "await"
    /\ sketchWorkers[1].index = 1
    /\ sketchWorkers[1].url = frames[2].originalUrl
    /\ sketchWorkers[2].pc = "idle"

\* The step keeps the identity of every keyframe and the list's length and
\* order.
SameIdentity ==
    /\ Len(frames') = Len(frames)
    /\ \A i \in 1..Len(frames) :
         /\ frames'[i].id = frames[i].id
         /\ frames'[i].time = frames[i].time
         /\ frames'[i].originalUrl = frames[i].originalUrl

Changed == {i \in 1..Len(frames) : i <= Len(frames') /\ frames'[i] # frames[i]}

\* C12: while the list is the same, a step changes at most one keyframe; a
\* caption update leaves imageUrl and isSketch as they are, a sketch update
\* leaves the caption as it is and sets isSketch, a caption or a sketch once
\* applied stays applied, and (in the first list) the sketch a keyframe
\* carries is the sketch of its own originalUrl.
C12_NoLostUpdate ==
    /\ [][appState' = appState =>
            /\ Cardinality(Changed) <= 1
            /\ \A i \in Changed :
                 /\ frames'[i].caption # frames[i].caption =>
                      /\ frames'[i].caption \in CaptionTexts
                      /\ frames'[i].imageUrl = frames[i].imageUrl
                      /\ frames'[i].isSketch = frames[i].isSketch
                 /\ frames'[i].imageUrl # frames[i].imageUrl =>
                      /\ frames'[i].isSketch
                      /\ frames'[i].caption = frames[i].caption
                 /\ frames[i].caption # NoCaption => frames'[i].caption # NoCaption
                 /\ frames[i].isSketch => frames'[i].isSketch]_vars
    /\ [](uploads <= 1 =>
            \A i \in 1..Len(frames) :
               IF frames[i].isSketch
               THEN \E v \in SketchVariants :
                      frames[i].imageUrl = SketchUrl(frames[i].originalUrl, v)
               ELSE frames[i].imageUrl = frames[i].originalUrl)

\* Both pools are still running on the first list, and its first keyframe
\* already carries its caption and its sketch.
C12_Witness ==
    /\ uploads = 1
    /\ Len(frames) = 3
    /\ captionsProcessing /\ isConverting
    /\ frames[1].caption = Described
    /\ frames[1].isSketch
    /\ frames[1].imageUrl = SketchUrl(frames[1].originalUrl, 2)
    /\ frames[2].caption = NoCaption /\ frames[2].isSketch
    /\ frames[3].caption = Fallback /\ ~frames[3].isSketch

(***************************************************************************)
(* Properties of the worker pools.                                         *)
(***************************************************************************)
PoolIds == 1..Len(captionPools)
Captioners == 1..captionConcurrency
Sketchers == 1..sketchConcurrency

\* How often the keyframe with this id is waiting in a caption queue, and
\* how many caption workers hold a request for it.
CaptionQueued(id) ==
    Cardinality({pk \in PoolIds \X (1..MaxQueue + 1) :
                   /\ pk[2] <= Len(captionPools[pk[1]].pending)
                   /\ captionPools[pk[1]].pending[pk[2]].id = id})
CaptionHeld(id) ==
    Cardinality({pw \in PoolIds \X Captioners :
                   /\ captionPools[pw[1]].workers[pw[2]].pc = "await"
                   /\ captionPools[pw[1]].workers[pw[2]].id = id})

\* 'Ink Sketch' is clicked in this step and at least one request is made.
SketchClick == ~isConverting /\ isConverting'

\* The queue the sketch workers take from in this step.
SketchQueueBefore == IF SketchClick THEN Indexed(frames) ELSE framesToProcess

\* Sketch worker w holds a new request after this step.
SketchTaken(w) ==
    /\ sketchWorkers'[w].pc = "await"
    /\ SketchClick \/ sketchWorkers'[w] # sketchWorkers[w]

\* C13: every item of a pool's queue is taken by exactly one worker.  In the
\* caption pool each keyframe of the list is, at every moment, either waiting
\* in the queue once, or held by exactly one worker, or captioned.  In the
\* sketch pool the items leave the queue from its head, each one either
\* skipped because its frame was a sketch or handed to exactly one worker,
\* no two workers hold the same item, and the pool ends only with the queue
\* empty and every worker returned.
C13_TakenOnce ==
    /\ [](\A i \in 1..Len(frames) :
            CaptionQueued(frames[i].id) + CaptionHeld(frames[i].id)
              + (IF frames[i].caption # NoCaption THEN 1 ELSE 0) = 1)
    /\ [](/\ \A v, w \in Sketchers :
               (v # w /\ sketchWorkers[v].pc = "await" /\ sketchWorkers[w].pc = "await")
               => sketchWorkers[v].index # sketchWorkers[w].index
          /\ \A w \in Sketchers, k \in 1..Len(framesToProcess) :
               sketchWorkers[w].pc = "await"
               => sketchWorkers[w].index < framesToProcess[k].index)
    /\ [][LET old == SketchQueueBefore
              gone == Len(old) - Len(framesToProcess')
          IN  /\ gone >= 0
              /\ framesToProcess' = SubSeq(old, gone + 1, Len(old))
              /\ \A k \in 1..gone :
                   \/ old[k].frame.isSketch
                   \/ Cardinality({w \in Sketchers :
                                     /\ SketchTaken(w)
                                     /\ sketchWorkers'[w].index = old[k].index
                                     /\ sketchWorkers'[w].url = old[k].frame.originalUrl}) = 1
              /\ \A w \in Sketchers :
                   SketchTaken(w) =>
                     \E k \in 1..gone : /\ old[k].index = sketchWorkers'[w].index
                                        /\ ~old[k].frame.isSketch
              /\ (isConverting /\ ~isConverting') =>
                   framesToProcess' = <<>> /\ AllReturned(sketchWorkers')
              /\ (captionsProcessing /\ ~captionsProcessing') =>
                   \A i \in 1..Len(frames') : frames'[i].caption # NoCaption]_vars

\* Six keyframes and five caption workers: the sixth keyframe has been taken
\* from the queue by the worker whose first request returned, while another
\* worker still waits for its first.
C13_Witness ==
    /\ Len(frames) = 6
    /\ Len(captionPools) = 1
    /\ captionPools[1].pending = <<>>
    /\ CaptionHeld(frames[6].id) = 1
    /\ frames[6].caption = NoCaption
    /\ frames[3].caption # NoCaption
    /\ CaptionHeld(frames[1].id) = 1

\* The request of caption worker w of pool p ends in this step.
CaptionEnded(p, w) ==
    /\ captionPools[p].workers[w].pc = "await"
    /\ \/ Len(captionPools') < Len(captionPools)
       \/ captionPools'[p].workers[w] # captionPools[p].workers[w]

\* The request of sketch worker w ends in this step.
SketchEnded(w) ==
    /\ sketchWorkers[w].pc = "await"
    /\ sketchWorkers'[w] # sketchWorkers[w]

\* C14: when a request of a pool ends, with a result or with a failure, the
\* keyframe it was for is marked (by the result or by a fallback value), the
\* worker goes on with the queue if an item is left, and the busy flag is
\* set exactly as long as a worker of the pool has a request out.
C14_FailureTolerated ==
    /\ [](/\ isConverting <=> ~AllReturned(sketchWorkers)
          /\ captionsProcessing <=> captionPools # <<>>)
    /\ [][/\ \A p \in PoolIds, w \in Captioners :
               CaptionEnded(p, w) =>
                 /\ \A i \in 1..Len(frames) :
                      frames[i].id = captionPools[p].workers[w].id
                      => frames'[i].caption \in CaptionTexts
                 /\ captionPools[p].pending # <<>> =>
                      /\ Len(captionPools') = Len(captionPools)
                      /\ captionPools'[p].workers[w].pc = "await"
          /\ \A w \in Sketchers :
               SketchEnded(w) =>
                 /\ frames'[sketchWorkers[w].index + 1] # frames[sketchWorkers[w].index + 1]
                 /\ framesToProcess # <<>> => sketchWorkers'[w].pc = "await"]_vars

\* C15: at most 5 analyzeImage calls and at most 3 generateSketch calls are
\* unresolved at any moment.
C15_BoundedRequests ==
    /\ Cardinality({pw \in PoolIds \X Captioners :
                      captionPools[pw[1]].workers[pw[2]].pc = "await"}) <= 5
    /\ Cardinality({w \in Sketchers : sketchWorkers[w].pc = "await"}) <= 3

(***************************************************************************)
(* Properties of utils/imageProcessing.                                    *)
(***************************************************************************)
Returned(fn) == call.fn = fn /\ call.pc \in {"returned", "resolved"}

\* C16: calculateFrameDifference returns 0 for every pair of equal buffers.
C16_EqualBuffersZero ==
    (Returned("calculateFrameDifference") /\ call.data1 = call.data2)
    => call.result = Quot(0, 1)

\* C17: called with two buffers of length 0, calculateFrameDifference
\* returns the number 0, not NaN and not an infinity.
C17_EmptyBuffersZero ==
    (/\ Returned("calculateFrameDifference")
     /\ Len(call.data1) = 0
     /\ Len(call.data2) = 0)
    => /\ call.result.den # 0
       /\ call.result.num = 0

\* C18: for an all-255 buffer against an all-0 buffer of the same length
\* L > 0, calculateFrameDifference returns 765 whatever L is.
C18_FullRange ==
    (/\ Returned("calculateFrameDifference")
     /\ Len(call.data1) > 0
     /\ \A i \in 1..Len(call.data1) : call.data1[i] = 255 /\ call.data2[i] = 0)
    => call.result = Quot(3 * 255, 1)

\* C19: for a source whose every pixel has R = G = B = 0, every pixel of
\* the output of applySketchEffect has R = G = B = 0.
C19_BlackStaysBlack ==
    (/\ Returned("applySketchEffect")
     /\ \A i \in 1..Len(call.data) : i % 4 # 0 => call.data[i] = 0)
    => \A i \in 1..Len(call.result) : i % 4 # 0 => call.result[i] = 0

\* The valid coordinate nearest to c in 0..n-1.
Nearest(n, c) == IF c < 0 THEN 0 ELSE IF c > n - 1 THEN n - 1 ELSE c

\* C20: every flat index boxBlur reads lies in 0..w*h-1; in the horizontal
\* pass it is in the row of the cell it is read for, at the valid column
\* nearest to x + k, and in the vertical pass in the cell's column, at the
\* valid row nearest to y + k (edge replication, never the opposite edge).
C20_BlurInBounds ==
    Returned("boxBlur") =>
        \A rd \in call.reads :
            /\ rd.index \in 0..call.w * call.h - 1
            /\ rd.pass = "horizontal" =>
                 /\ rd.index \div call.w = rd.y
                 /\ rd.index % call.w = Nearest(call.w, rd.x + rd.k)
            /\ rd.pass = "vertical" =>
                 /\ rd.index % call.w = rd.x
                 /\ rd.index \div call.w = Nearest(call.h, rd.y + rd.k)

\* A boxBlur call on a 1 x 1 raster with radius 4 has returned: all nine
\* samples of either pass, from k = -4 to k = 4, were read at index 0.
C20_Witness ==
    /\ Returned("boxBlur")
    /\ call.w = 1 /\ call.h = 1 /\ call.radius = 4
    /\ Cardinality(call.reads) = 18
    /\ \A rd \in call.reads : rd.index = 0
    /\ call.result = call.data

(***************************************************************************)
(* Properties of the storyboard export.                                    *)
(***************************************************************************)
\* ceil(n / 12)
CeilTwelfth(n) == CHOOSE k \in 0..n : 12 * k >= n /\ 12 * (k - 1) < n

\* C21: for n keyframes exactly ceil(n / 12) pages are produced, and page k
\* holds the keyframes at positions 12(k-1)+1 .. min(12k, n) in their order;
\* 12 keyframes give 1 page, 13 give 2 pages with 1 cell on the second.
C21_Pagination ==
    saved.kind # "none" =>
        LET n == Len(frames)
        IN  /\ Len(saved.pages) = CeilTwelfth(n)
            /\ \A k \in 1..Len(saved.pages) :
                 /\ Len(saved.pages[k].cells) = Min(12 * k, n) - 12 * (k - 1)
                 /\ \A c \in 1..Len(saved.pages[k].cells) :
                      saved.pages[k].cells[c].image.url = frames[12 * (k - 1) + c].imageUrl
            /\ n = 12 => Len(saved.pages) = 1
            /\ n = 13 => Len(saved.pages) = 2 /\ Len(saved.pages[2].cells) = 1

\* The shot numbers drawn, page after page and cell after cell.
RECURSIVE ShotsDrawn(_)
ShotsDrawn(pages) ==
    IF pages = <<>> THEN <<>>
    ELSE [c \in 1..Len(Head(pages).cells) |-> Head(pages).cells[c].shot]
         \o ShotsDrawn(Tail(pages))

\* C22: the shot numbers drawn across all pages are 1, 2, .., n in this
\* order: the keyframe at 0-based position p is numbered p + 1.
C22_ShotNumbers ==
    saved.kind # "none" => ShotsDrawn(saved.pages) = [p \in 1..Len(frames) |-> p]

(***************************************************************************)
(* Properties of the page layout and of the table export.                  *)
(***************************************************************************)
\* C23: wrapText makes at most 5 fillText calls, whatever the caption and
\* the measured widths are.
C23_AtMostFiveLines ==
    (call.fn = "wrapText" /\ call.pc = "returned") => Len(call.drawn) <= 5

\* a < b, a <= b for fractions with positive denominators
RLess(a, b) == a.num * b.den < b.num * a.den
RLeq(a, b) == a.num * b.den <= b.num * a.den

\* C24: the drawn rectangle keeps the image's aspect ratio, covers the box
\* with one dimension equal to the box's, and is centred; a relatively wider
\* image gets the box height, a negative horizontal offset and vertical
\* offset 0, a relatively taller one the box width, a vertical offset <= 0
\* and horizontal offset 0.
C24_CoverFit ==
    (call.fn = "coverFit" /\ call.pc = "returned") =>
        LET d == call.placed
            boxW == Quot(560, 1)
            boxH == Quot(318, 1)
            wider == call.imgW * 318 > 560 * call.imgH
            taller == call.imgW * 318 < 560 * call.imgH
        IN  /\ d.drawW.num * d.drawH.den * call.imgH = d.drawH.num * d.drawW.den * call.imgW
            /\ RLeq(boxW, d.drawW) /\ RLeq(boxH, d.drawH)
            /\ d.drawW = boxW \/ d.drawH = boxH
            /\ RAdd(RAdd(d.offX, d.offX), d.drawW) = boxW
            /\ RAdd(RAdd(d.offY, d.offY), d.drawH) = boxH
            /\ wider => d.drawH = boxH /\ RLess(d.offX, Quot(0, 1)) /\ d.offY = Quot(0, 1)
            /\ taller => d.drawW = boxW /\ RLeq(d.offY, Quot(0, 1)) /\ d.offX = Quot(0, 1)

\* A 1920 x 1080 image has been placed: drawn 318 high and 565 1/3 wide,
\* 2 2/3 to the left of the box.
C24_Witness ==
    /\ call.fn = "coverFit" /\ call.pc = "returned"
    /\ call.imgW = 1920 /\ call.imgH = 1080
    /\ call.placed.drawH = Quot(318, 1)
    /\ call.placed.drawW = Quot(1696, 3)
    /\ call.placed.offX = Quot(-8, 3)

\* The standard CSV reading of a quoted field: the enclosing quotes are
\* removed and every pair of quotes inside stands for one quote.
RECURSIVE Undouble(_)
Undouble(text) ==
    IF text = <<>> THEN <<>>
    ELSE IF Head(text) = Quote /\ Len(text) >= 2 /\ text[2] = Quote
         THEN <<Quote>> \o Undouble(Tail(Tail(text)))
         ELSE <<Head(text)>> \o Undouble(Tail(text))

Unquote(field) ==
    IF field = <<>> THEN <<>>
    ELSE Undouble(SubSeq(field, 2, Len(field) - 1))

\* C25: the table has one row per keyframe, numbered index + 1; the
\* description of a captioned keyframe is a quoted field in which every
\* quote of the caption is doubled, reading the field back gives the caption,
\* and keyframes with different captions have different fields.
C25_CsvRoundTrip ==
    saved.kind = "csv" =>
        /\ Len(saved.rows) = Len(frames)
        /\ \A i \in 1..Len(frames) :
             /\ saved.rows[i].shot = i
             /\ Unquote(saved.rows[i].description) = frames[i].caption
             /\ frames[i].caption # NoCaption =>
                  LET f == saved.rows[i].description
                  IN  /\ f[1] = Quote /\ f[Len(f)] = Quote
                      /\ Len(f) = 2 + Len(frames[i].caption)
                                    + Len(SelectSeq(frames[i].caption, LAMBDA ch : ch = Quote))
        /\ \A i, j \in 1..Len(frames) :
             frames[i].caption # frames[j].caption
             => saved.rows[i].description # saved.rows[j].description

\* A table of two keyframes has been exported: the caption of the first is
\* one double quote, that of the second a letter and a double quote.
C25_Witness ==
    /\ saved.kind = "csv"
    /\ Len(frames) = 2
    /\ frames[1].caption = <<Quote>>
    /\ saved.rows[1].description = <<Quote, Quote, Quote, Quote>>
    /\ frames[2].caption = <<"a", Quote>>
    /\ saved.rows[2].timecode = <<0, ":", 0, 0>>

(***************************************************************************)
(* Properties of the frame difference and of the keyframe list.            *)
(***************************************************************************)
\* |R1-R2| + |G1-G2| + |B1-B2| of pixel p (counted from 0)
PixelDifference(data1, data2, p) ==
    Abs(data1[4 * p + 1] - data2[4 * p + 1])
    + Abs(data1[4 * p + 2] - data2[4 * p + 2])
    + Abs(data1[4 * p + 3] - data2[4 * p + 3])

\* the sum of the pixel differences over the pixels p, p + 1, ... whose
\* position is a multiple of 4
RECURSIVE SampledSum(_, _, _)
SampledSum(data1, data2, p) ==
    IF p >= Len(data1) \div 4 THEN 0
    ELSE (IF p % 4 = 0 THEN PixelDifference(data1, data2, p) ELSE 0)
         + SampledSum(data1, data2, p + 1)

\* C26: calculateFrameDifference returns the sum of the channel differences
\* of the pixels at positions 0, 4, 8, ... divided by the number of pixels of
\* the buffer.
C26_SampledSumOverAllPixels ==
    (Returned("calculateFrameDifference") /\ Len(call.data1) > 0) =>
        /\ call.result.den > 0
        /\ call.result.num * (Len(call.data1) \div 4)
           = SampledSum(call.data1, call.data2, 0) * call.result.den

\* Two buffers of 5 pixels that differ in pixels 0, 1 and 4 have been
\* compared: pixels 0 and 4 are sampled, 2 * 765 / 5 = 306 is returned.
C26_Witness ==
    /\ Returned("calculateFrameDifference")
    /\ call.data1 = Bytes(<<Zeros, Zeros, Zeros, Zeros, Zeros>>)
    /\ call.data2 = Bytes(<<Ones, Ones, Zeros, Zeros, Ones>>)
    /\ call.result = Quot(306, 1)

\* C27: a sample that replaces lastFrameData appends a keyframe for that
\* same sample to the run's list, also when the high-resolution output
\* context is not acquired.
C27_ReplacedMeansAppended ==
    [][\A r \in RunIds : (SampleStep(r) /\ Last(runs'[r].accepted)) =>
         /\ runs'[r].lastFrameData = FrameData(Last(runs'[r].seen))
         /\ Len(runs'[r].frames) = Len(runs[r].frames) + 1
         /\ Last(runs'[r].frames).time = runs[r].processedTime]_vars

\* C28: a keyframe with isSketch = false shows its original image, the
\* image of a keyframe changes only in a step that leaves it marked as a
\* sketch, and the keyframes of an extraction result arrive with
\* isSketch = false, no caption and imageUrl = originalUrl.
C28_SketchFlag ==
    /\ [](\A i \in 1..Len(frames) :
            /\ ~frames[i].isSketch => frames[i].imageUrl = frames[i].originalUrl
            /\ frames[i].imageUrl # frames[i].originalUrl => frames[i].isSketch)
    /\ [][/\ appState' = appState =>
               \A i \in Changed :
                   frames'[i].imageUrl # frames[i].imageUrl => frames'[i].isSketch
          /\ (appState = "ANALYZING" /\ appState' = "READY") =>
               \A i \in 1..Len(frames') :
                   /\ ~frames'[i].isSketch
                   /\ frames'[i].caption = NoCaption
                   /\ frames'[i].imageUrl = frames'[i].originalUrl]_vars

\* Two keyframes with captions: the first has become a sketch, the second
\* still shows its original image.
C28_Witness ==
    /\ appState = "READY"
    /\ Len(frames) = 2
    /\ frames[1].isSketch /\ frames[1].imageUrl.kind = "sketch"
    /\ frames[1].caption # NoCaption
    /\ ~frames[2].isSketch /\ frames[2].imageUrl = frames[2].originalUrl
    /\ frames[2].caption # NoCaption

\* Some caption worker holds a request for this image.
CaptionRequested(url) ==
    \E p \in PoolIds, w \in Captioners :
        /\ captionPools[p].workers[w].pc = "await"
        /\ captionPools[p].workers[w].url = url

\* C29: the sketch a keyframe carries was made from its own originalUrl, and
\* a keyframe receives a caption only in a step before which a caption
\* worker held a request for that keyframe's originalUrl; this across resets
\* and new uploads.
C29_ResultsReachTheirKeyframe ==
    /\ [](\A i \in 1..Len(frames) :
            frames[i].isSketch =>
                /\ frames[i].imageUrl.file = frames[i].originalUrl.file
                /\ frames[i].imageUrl.t = frames[i].originalUrl.t)
    /\ [][appState' = appState =>
            \A i \in Changed :
                frames'[i].caption # frames[i].caption
                => CaptionRequested(frames[i].originalUrl)]_vars

\* How many caption workers hold a request for this image.
CaptionRequests(url) ==
    Cardinality({pw \in PoolIds \X Captioners :
                   /\ captionPools[pw[1]].workers[pw[2]].pc = "await"
                   /\ captionPools[pw[1]].workers[pw[2]].url = url})

\* C30: captionsProcessing is true while a caption worker is running, at
\* most one caption queue is active, and no keyframe of the list is in two
\* analyzeImage requests; this across resetApp and a new upload.
C30_OneCaptionQueue ==
    /\ (\E p \in PoolIds, w \in Captioners : captionPools[p].workers[w].pc = "await")
         => captionsProcessing
    /\ Len(captionPools) <= 1
    /\ \A i \in 1..Len(frames) : CaptionRequests(frames[i].originalUrl) <= 1

\* Every keyframe has a caption and the App is not captioning.
Quiescent ==
    /\ appState = "READY"
    /\ \A i \in 1..Len(frames) : frames[i].caption # NoCaption
    /\ ~captionsProcessing

=============================================================================
